---- MODULE Spec2Model ----
(***************************************************************************)
(* Model of src/python/browser.py: the font cache (get_font), the layout   *)
(* pass (Layout.__init__, token, word, flush) and the browser session      *)
(* (Browser.load, draw, scrolldown).                                       *)
(*                                                                         *)
(* Units.  Horizontal coordinates and the scroll offset are whole pixels.  *)
(* Vertical coordinates of the layout pass (cursor_y, baseline, entry.y)   *)
(* are products of integers with 1.25, so they are kept exactly as a       *)
(* count of quarter pixels: Px(n) is n pixels, Mul125(n) is 1.25 * n       *)
(* pixels.                                                                 *)
(***************************************************************************)
EXTENDS Naturals, Integers, Sequences, FiniteSets

\* ---- program constants (browser.py:13-16) ----
WIDTH == 800
HEIGHT == 600
HSTEP == 13
VSTEP == 18
SCROLL_STEP == 100

\* ---- bounds of the model ----
\* characters in the content of one text token
MaxContent == 4
\* tokens laid out during one session (over all loads)
MaxTokens == 2
\* scroll-down events during one session
MaxScrolls == 5
\* characters in the contents of one recorded document, over all its tokens
MaxChars == 7

\* ---- quarter-pixel arithmetic ----
Px(n) == 4 * n
Mul125(n) == 5 * n

SetMax(S) == CHOOSE m \in S : \A n \in S : n <= m

\* ---- the document: tokens of root.get_all_nodes() ----
Chars == {"a", " "}
Tags == {"text", "meta", "p", "i", "b", "small", "big", "h1", "br", "div"}
\* tags whose nodes carry a 'content' attribute: the text leaves, and the
\* meta elements (<meta name=... content=...>)
ContentTags == {"text", "meta"}
ContentsUpTo(n) == UNION {[1..k -> Chars] : k \in 0..n}
\* the tokens whose content has at most n characters; for a node without
\* the attribute attributes.get('content', '') is the empty string
TokensUpTo(n) ==
    {[tag |-> t, content |-> c] : t \in ContentTags, c \in ContentsUpTo(n)}
       \cup {[tag |-> t, content |-> <<>>] : t \in Tags \ ContentTags}
Contents == ContentsUpTo(MaxContent)
Tokens == TokensUpTo(MaxContent)
NoToken == [tag |-> "none", content |-> <<>>]

\* str.split(): the maximal runs of non-whitespace characters, in order
RECURSIVE SplitFrom(_, _, _, _)
SplitFrom(s, i, cur, acc) ==
    IF i > Len(s)
    THEN IF cur = <<>> THEN acc ELSE Append(acc, cur)
    ELSE IF s[i] = " "
         THEN SplitFrom(s, i + 1, <<>>, IF cur = <<>> THEN acc ELSE Append(acc, cur))
         ELSE SplitFrom(s, i + 1, Append(cur, s[i]), acc)

\* faulty variant: the word that ends with the content is not appended
RECURSIVE SplitFromNoFinal(_, _, _, _)
SplitFromNoFinal(s, i, cur, acc) ==
    IF i > Len(s)
    THEN acc
    ELSE IF s[i] = " "
         THEN SplitFromNoFinal(s, i + 1, <<>>, IF cur = <<>> THEN acc ELSE Append(acc, cur))
         ELSE SplitFromNoFinal(s, i + 1, Append(cur, s[i]), acc)
SplitNoFinal(s) == SplitFromNoFinal(s, 1, <<>>, <<>>)

\* faulty variant: split(" "), which keeps the empty strings between separators
RECURSIVE SplitFromKeepEmpty(_, _, _, _)
SplitFromKeepEmpty(s, i, cur, acc) ==
    IF i > Len(s)
    THEN Append(acc, cur)
    ELSE IF s[i] = " "
         THEN SplitFromKeepEmpty(s, i + 1, <<>>, Append(acc, cur))
         ELSE SplitFromKeepEmpty(s, i + 1, Append(cur, s[i]), acc)
SplitKeepEmpty(s) == SplitFromKeepEmpty(s, 1, <<>>, <<>>)

Split(s) == SplitFrom(s, 1, <<>>, <<>>)

\* ---- fonts: the tkinter font of a (size, weight, style) key ----
\* font.metrics(): pixels, growing with the size
metrics(font) ==
    [ascent |-> 16 * font.size + 1,
     descent |-> 5 * font.size + 3,
     linespace |-> 21 * font.size + 4]

\* font.measure(text): the sum of the advances of the characters
RECURSIVE measure(_, _)
measure(font, text) ==
    IF text = <<>> THEN 0
    ELSE (IF Head(text) = " " THEN 4 * font.size + 2 ELSE 29 * font.size + 2)
         + measure(font, Tail(text))

VARIABLES
    FONTS,                \* the cache: (size, weight, style) -> font handle
    scroll,               \* Browser.scroll
    display_list,         \* Browser.display_list
    canvas,               \* the create_text commands since canvas.delete("all")
    redraws,              \* calls of Browser.draw made by the latest event
    event,                \* outcome of the latest event
    pc,                   \* position inside Browser.load
    ntok,                 \* tokens visited so far in the session
    tok,                  \* the token Layout.token is processing
    words,                \* words of tok still to be placed
    cursor_x, cursor_y,   \* Layout.cursor_x, Layout.cursor_y (quarter pixels)
    weight, style, size,  \* Layout.weight, Layout.style, Layout.size
    line,                 \* Layout.line
    layout_display_list,  \* Layout.display_list
    baseline,             \* flush's local baseline of the latest flushed line
    doc                   \* the tokens of the document, where they are recorded

browserVars == <<scroll, display_list, canvas>>
layoutVars == <<tok, words, cursor_x, cursor_y, weight, style, size, line,
                layout_display_list, baseline>>
vars == <<FONTS, scroll, display_list, canvas, redraws, event, pc, ntok,
          tok, words, cursor_x, cursor_y, weight, style, size, line,
          layout_display_list, baseline, doc>>

\* ---- get_font (browser.py:36-45) ----
FontKey == <<size, weight, style>>

\* faulty variant: the test `key not in FONTS` is missing, every call constructs
get_fontAlwaysNew(cache, key) ==
    [k \in DOMAIN cache \cup {key} |->
        IF k = key
        THEN [id |-> IF key \in DOMAIN cache THEN cache[key].id + 1
                     ELSE Cardinality(DOMAIN cache) + 1,
              size |-> key[1], weight |-> key[2], style |-> key[3]]
        ELSE cache[k]]

\* the cache after get_font(key): a missing key gets a newly constructed font
get_font(cache, key) ==
    IF key \in DOMAIN cache THEN cache
    ELSE [k \in DOMAIN cache \cup {key} |->
            IF k = key
            THEN [id |-> Cardinality(DOMAIN cache) + 1,
                  size |-> key[1], weight |-> key[2], style |-> key[3]]
            ELSE cache[k]]

\* ---- Browser.draw (browser.py:149-154) ----
\* faulty variant: the test for entries above the viewport is missing
CulledBelowOnly(e, s) == e.y > Px(s + HEIGHT)

\* the two `continue` tests of the loop
Culled(e, s) ==
    \/ e.y > Px(s + HEIGHT)
    \/ e.y + Px(metrics(e.font).linespace) < Px(s)

RECURSIVE draw(_, _)
draw(dl, s) ==
    IF dl = <<>> THEN <<>>
    ELSE LET e == Head(dl)
             rest == draw(Tail(dl), s)
         IN IF Culled(e, s) THEN rest
            ELSE <<[x |-> e.x, y |-> e.y - Px(s), text |-> e.word, font |-> e.font]>>
                 \o rest

\* faulty variant: a new pass starts where the last one left the cursor
LayoutInitKeepsCursor ==
    /\ layout_display_list' = <<>>
    /\ cursor_x' = cursor_x
    /\ cursor_y' = cursor_y
    /\ weight' = "normal"
    /\ style' = "roman"
    /\ size' = 12
    /\ line' = <<>>
    /\ tok' = NoToken
    /\ words' = <<>>
    /\ baseline' = 0

\* ---- Layout.__init__ (browser.py:48-60) ----
LayoutInit ==
    /\ layout_display_list' = <<>>
    /\ cursor_x' = HSTEP
    /\ cursor_y' = Px(VSTEP)
    /\ weight' = "normal"
    /\ style' = "roman"
    /\ size' = 12
    /\ line' = <<>>
    /\ tok' = NoToken
    /\ words' = <<>>
    /\ baseline' = 0

Init ==
    /\ FONTS = <<>>
    /\ scroll = 0
    /\ display_list = <<>>
    /\ canvas = <<>>
    /\ redraws = 0
    /\ event = "init"
    /\ pc = "idle"
    /\ ntok = 0
    /\ tok = NoToken
    /\ words = <<>>
    /\ cursor_x = HSTEP
    /\ cursor_y = Px(VSTEP)
    /\ weight = "normal"
    /\ style = "roman"
    /\ size = 12
    /\ line = <<>>
    /\ layout_display_list = <<>>
    /\ baseline = 0
    /\ doc = <<>>

\* ---- Layout.flush (browser.py:110-126) ----
\* faulty variant: only the cursor is compared with the right margin
OverflowsCursorOnly(cx, w) == cx > WIDTH - HSTEP

\* the condition of Layout.word under which it calls flush (browser.py:105)
Overflows(cx, w) == cx + w > WIDTH - HSTEP

MaxAscent(ln) == SetMax({metrics(ln[i].font).ascent : i \in DOMAIN ln})
MaxDescent(ln) == SetMax({metrics(ln[i].font).descent : i \in DOMAIN ln})
\* faulty variant: the line-height factor 1.25 is missing
BaselineNoLeading(cy, ln) == cy + Px(MaxAscent(ln))
\* faulty variant: the ascent is taken from the cursor instead of added to it
BaselineAbove(cy, ln) == cy - Mul125(MaxAscent(ln))
Baseline(cy, ln) == cy + Mul125(MaxAscent(ln))
EntryY(b, font) == b - Px(metrics(font).ascent)
FlushedEntries(cy, ln) ==
    [i \in 1..Len(ln) |->
        [x |-> ln[i].x, y |-> EntryY(Baseline(cy, ln), ln[i].font),
         word |-> ln[i].word, font |-> ln[i].font]]

\* faulty variant: the flush of a line leaves cursor_x where the line ended
flushKeepsCursorX ==
    IF line = <<>>
    THEN UNCHANGED <<layout_display_list, cursor_x, cursor_y, line, baseline>>
    ELSE /\ baseline' = Baseline(cursor_y, line)
         /\ layout_display_list' = layout_display_list \o FlushedEntries(cursor_y, line)
         /\ cursor_y' = Baseline(cursor_y, line) + Mul125(MaxDescent(line))
         /\ cursor_x' = cursor_x
         /\ line' = <<>>

\* faulty variant: the descent of the line is not added to cursor_y
flushNoDescent ==
    IF line = <<>>
    THEN UNCHANGED <<layout_display_list, cursor_x, cursor_y, line, baseline>>
    ELSE /\ baseline' = Baseline(cursor_y, line)
         /\ layout_display_list' = layout_display_list \o FlushedEntries(cursor_y, line)
         /\ cursor_y' = Baseline(cursor_y, line)
         /\ cursor_x' = HSTEP
         /\ line' = <<>>

flush ==
    IF line = <<>>
    THEN UNCHANGED <<layout_display_list, cursor_x, cursor_y, line, baseline>>
    ELSE /\ baseline' = Baseline(cursor_y, line)
         /\ layout_display_list' = layout_display_list \o FlushedEntries(cursor_y, line)
         /\ cursor_y' = Baseline(cursor_y, line) + Mul125(MaxDescent(line))
         /\ cursor_x' = HSTEP
         /\ line' = <<>>

\* ---- Browser.load (browser.py:143-147) ----
\* faulty variant: the page is cleared before the request is made
LoadFailClears ==
    /\ pc = "idle"
    /\ event' = "failed"
    /\ redraws' = 0
    /\ display_list' = <<>>
    /\ canvas' = <<>>
    /\ UNCHANGED <<doc, FONTS, scroll, pc, ntok, layoutVars>>

\* ewb.request or ewb.load raises: nothing after it runs
LoadFail ==
    /\ pc = "idle"
    /\ event' = "failed"
    /\ redraws' = 0
    /\ UNCHANGED <<doc, FONTS, browserVars, pc, ntok, layoutVars>>

\* request and parse succeed; Layout(root) starts
LoadBegin ==
    /\ pc = "idle"
    /\ pc' = "tokens"
    /\ event' = "loading"
    /\ redraws' = 0
    /\ LayoutInit
    /\ UNCHANGED <<doc, FONTS, browserVars, ntok>>

\* ---- Layout.token (browser.py:67-75) ----
\* faulty variant: the test of the tag is missing, every content is split
TokenVisitAnyTag(t) ==
    /\ pc = "tokens"
    /\ tok' = t
    /\ words' = Split(t.content)
    /\ ntok' = ntok + 1
    /\ pc' = "words"
    /\ UNCHANGED <<FONTS, browserVars, redraws, event, cursor_x, cursor_y,
                   weight, style, size, line, layout_display_list, baseline>>

\* the loop of __init__ takes the next token; token() splits a text leaf
TokenVisit(t) ==
    /\ pc = "tokens"
    /\ tok' = t
    /\ words' = IF t.tag = "text" THEN Split(t.content) ELSE <<>>
    /\ ntok' = ntok + 1
    /\ pc' = "words"
    /\ UNCHANGED <<FONTS, browserVars, redraws, event, cursor_x, cursor_y,
                   weight, style, size, line, layout_display_list, baseline>>

\* the next token of a document of the session
TokenBegin ==
    /\ ntok < MaxTokens
    /\ \E t \in Tokens : TokenVisit(t)
    /\ UNCHANGED doc

\* faulty variant: token() returns without the flush
TokenEndNoFlush ==
    /\ pc = "words"
    /\ words = <<>>
    /\ pc' = "tokens"
    /\ tok' = NoToken
    /\ UNCHANGED <<doc, FONTS, browserVars, redraws, event, ntok, words, weight, style, size,
                   layout_display_list, cursor_x, cursor_y, line, baseline>>

\* faulty variant: token() flushes only for the break tags
TokenEndFlushOnBreak ==
    /\ pc = "words"
    /\ words = <<>>
    /\ IF tok.tag \in {"br", "p"}
       THEN flush
       ELSE UNCHANGED <<layout_display_list, cursor_x, cursor_y, line, baseline>>
    /\ pc' = "tokens"
    /\ tok' = NoToken
    /\ UNCHANGED <<doc, FONTS, browserVars, redraws, event, ntok, words, weight, style, size>>

\* the words are placed: token() ends with flush
TokenEnd ==
    /\ pc = "words"
    /\ words = <<>>
    /\ flush
    /\ pc' = "tokens"
    /\ tok' = NoToken
    /\ UNCHANGED <<doc, FONTS, browserVars, redraws, event, ntok, words, weight, style, size>>

\* ---- Layout.word (browser.py:102-108) ----
\* get_font constructs a font for a missing key, which tkinter can refuse:
\* the exception leaves Layout.__init__ and Browser.load
LoadAbort ==
    /\ pc = "words"
    /\ words # <<>>
    /\ FontKey \notin DOMAIN FONTS
    /\ pc' = "idle"
    /\ event' = "failed"
    /\ redraws' = 0
    /\ LayoutInit
    /\ UNCHANGED <<doc, FONTS, browserVars, ntok>>

\* lines 103-106: the font, the width, the flush of a full line
WordFlush ==
    /\ pc = "words"
    /\ words # <<>>
    /\ FONTS' = get_font(FONTS, FontKey)
    /\ LET font == FONTS'[FontKey]
           w == measure(font, Head(words))
       IN IF Overflows(cursor_x, w)
          THEN flush
          ELSE UNCHANGED <<layout_display_list, cursor_x, cursor_y, line, baseline>>
    /\ pc' = "place"
    /\ UNCHANGED <<doc, browserVars, redraws, event, ntok, tok, words, weight, style, size>>

\* lines 107-108: the word joins the line, the cursor moves past it
WordPlace ==
    /\ pc = "place"
    /\ LET font == FONTS[FontKey]
           w == measure(font, Head(words))
       IN /\ line' = Append(line, [x |-> cursor_x, word |-> Head(words), font |-> font])
          /\ cursor_x' = cursor_x + w + measure(font, <<" ">>)
    /\ words' = Tail(words)
    /\ pc' = "words"
    /\ UNCHANGED <<doc, FONTS, browserVars, redraws, event, ntok, tok, cursor_y,
                   weight, style, size, layout_display_list, baseline>>

\* faulty variant: a new page starts at the top
LoadEndResetsScroll ==
    /\ pc = "tokens"
    /\ display_list' = layout_display_list
    /\ scroll' = 0
    /\ canvas' = draw(layout_display_list, 0)
    /\ redraws' = 1
    /\ event' = "loaded"
    /\ pc' = "idle"
    /\ LayoutInit
    /\ UNCHANGED <<doc, FONTS, ntok>>

\* browser.py:146-147: the layout is complete, assigned and drawn
LoadEnd ==
    /\ pc = "tokens"
    /\ display_list' = layout_display_list
    /\ canvas' = draw(layout_display_list, scroll)
    /\ redraws' = 1
    /\ event' = "loaded"
    /\ pc' = "idle"
    /\ LayoutInit
    /\ UNCHANGED <<doc, FONTS, scroll, ntok>>

\* ---- Browser.scrolldown (browser.py:156-158) ----
\* faulty variant: the offset moves by the line step instead of the scroll step
ScrollDownByVstep ==
    /\ pc = "idle"
    /\ scroll < MaxScrolls * SCROLL_STEP
    /\ scroll' = scroll + VSTEP
    /\ canvas' = draw(display_list, scroll')
    /\ redraws' = 1
    /\ event' = "scrolled"
    /\ UNCHANGED <<doc, FONTS, display_list, pc, ntok, layoutVars>>

\* faulty variant: the offset stops once every entry is above the viewport
ScrollDownClamped ==
    /\ pc = "idle"
    /\ scroll < MaxScrolls * SCROLL_STEP
    /\ scroll' = IF \A i \in 1..Len(display_list) :
                       display_list[i].y + Px(metrics(display_list[i].font).linespace)
                          < Px(scroll)
                 THEN scroll
                 ELSE scroll + SCROLL_STEP
    /\ canvas' = draw(display_list, scroll')
    /\ redraws' = 1
    /\ event' = "scrolled"
    /\ UNCHANGED <<doc, FONTS, display_list, pc, ntok, layoutVars>>

ScrollDown ==
    /\ pc = "idle"
    /\ scroll < MaxScrolls * SCROLL_STEP
    /\ scroll' = scroll + SCROLL_STEP
    /\ canvas' = draw(display_list, scroll')
    /\ redraws' = 1
    /\ event' = "scrolled"
    /\ UNCHANGED <<doc, FONTS, display_list, pc, ntok, layoutVars>>

Next ==
    \/ LoadFail
    \/ LoadBegin
    \/ TokenBegin
    \/ WordFlush
    \/ LoadAbort
    \/ WordPlace
    \/ TokenEnd
    \/ LoadEnd
    \/ ScrollDown

Spec == Init /\ [][Next]_vars

\* ---- one document, its tokens recorded as the pass visits them ----
\* the first load of the session
DocLoad ==
    /\ event = "init"
    /\ LoadBegin

\* the characters of the contents of a document
RECURSIVE DocChars(_)
DocChars(d) ==
    IF d = <<>> THEN 0 ELSE Len(Head(d).content) + DocChars(Tail(d))

\* the first load visits a token of its document, which is recorded
TokenRecord ==
    /\ event = "loading"
    /\ Len(doc) < MaxTokens
    /\ \E t \in TokensUpTo(MaxChars - DocChars(doc)) :
          /\ TokenVisit(t)
          /\ doc' = Append(doc, t)

DocNext ==
    \/ DocLoad
    \/ TokenRecord
    \/ WordFlush
    \/ LoadAbort
    \/ WordPlace
    \/ TokenEnd
    \/ LoadEnd

DocSpec == Init /\ [][DocNext]_vars

\* ---- one document, loaded and then loaded again ----
\* Browser.load is called again with the same url: the same document
Reload ==
    /\ pc = "idle"
    /\ event = "loaded"
    /\ ntok = Len(doc)
    /\ pc' = "tokens"
    /\ event' = "reloading"
    /\ redraws' = 0
    /\ LayoutInit
    /\ UNCHANGED <<doc, FONTS, browserVars, ntok>>

\* the second load visits the tokens of the recorded document, in order
TokenReplay ==
    /\ event = "reloading"
    /\ ntok < 2 * Len(doc)
    /\ TokenVisit(doc[ntok - Len(doc) + 1])
    /\ UNCHANGED doc

\* the token loop ends: at any token for the first load, after the last
\* token of the document for the second
DocLoadEnd ==
    /\ event = "loading" \/ ntok = 2 * Len(doc)
    /\ LoadEnd

ReloadNext ==
    \/ DocLoad
    \/ TokenRecord
    \/ WordFlush
    \/ WordPlace
    \/ TokenEnd
    \/ DocLoadEnd
    \/ Reload
    \/ TokenReplay

ReloadSpec == Init /\ [][ReloadNext]_vars

\* ======================================================================
\* Steps of the layout pass, named for the properties below
\* ======================================================================
\* Layout.token starts on a token
TokenVisitStep == pc = "tokens" /\ pc' = "words"
\* Layout.token ends (its flush)
TokenEndStep == pc = "words" /\ pc' = "tokens"
\* Layout.word up to its test of the line width
WordFlushStep == pc = "words" /\ pc' = "place"
\* width of the word Layout.word is placing, in the font it obtained
PendingWidth == measure(FONTS'[FontKey], Head(words))
\* the word being placed is the first word of its token
FirstWordOfToken ==
    words = (IF tok.tag = "text" THEN Split(tok.content) ELSE <<>>)

\* ======================================================================
\* C1  Culling
\* ======================================================================
VisibleIdx(dl, s) ==
    {i \in 1..Len(dl) :
        /\ Px(s) <= dl[i].y + Px(metrics(dl[i].font).linespace)
        /\ dl[i].y <= Px(s + HEIGHT)}

\* C1: the commands on the canvas are exactly, in Display List order, one
\* command at (e.x, e.y - s) for every entry e with s <= e.y + linespace(e.font)
\* and e.y <= s + HEIGHT, and nothing else.
C1_Culling ==
    LET V == VisibleIdx(display_list, scroll)
        rank(i) == Cardinality({j \in V : j <= i})
    IN /\ Len(canvas) = Cardinality(V)
       /\ \A i \in V :
             canvas[rank(i)] = [x |-> display_list[i].x,
                                y |-> display_list[i].y - Px(scroll),
                                text |-> display_list[i].word,
                                font |-> display_list[i].font]

\* a draw after a scroll that skips an entry above the viewport, draws one
\* inside it and skips one below it
C1_Witness ==
    /\ event = "scrolled"
    /\ \E i, j, k \in 1..Len(display_list) :
          /\ display_list[i].y + Px(metrics(display_list[i].font).linespace) < Px(scroll)
          /\ j \in VisibleIdx(display_list, scroll)
          /\ display_list[k].y > Px(scroll + HEIGHT)

\* ======================================================================
\* C2  Wrap trigger
\* ======================================================================
\* C2: a word starts a new line exactly when
\* cursor_x + measure(word) > WIDTH - HSTEP with the cursor_x before the wrap;
\* a word that fits stays on the line of the word placed before it.
C2_WrapIffOverflow ==
    [][WordFlushStep =>
        LET over == cursor_x + PendingWidth > WIDTH - HSTEP
        IN /\ over => line' = <<>>
           /\ ~over => ~(line' = <<>> /\ layout_display_list' # <<>>)]_vars

\* ======================================================================
\* C3  Style derivation
\* ======================================================================
\* C3: visiting a token updates the running style from its tag: "i" makes
\* the style italic, "b" the weight bold, "small" takes 2 from the size, "big"
\* adds 4, "h1" adds 10, any other tag changes nothing.
C3_StyleDerivation ==
    [][TokenVisitStep =>
        LET t == tok'.tag
        IN /\ style' = (IF t = "i" THEN "italic" ELSE style)
           /\ weight' = (IF t = "b" THEN "bold" ELSE weight)
           /\ size' = (CASE t = "small" -> size - 2
                         [] t = "big" -> size + 4
                         [] t = "h1" -> size + 10
                         [] OTHER -> size)]_vars

\* ======================================================================
\* C4  Paragraph boundary
\* ======================================================================
\* where flush leaves cursor_y
FlushCursorY ==
    IF line = <<>> THEN cursor_y
    ELSE cursor_y + Mul125(MaxAscent(line)) + Mul125(MaxDescent(line))

\* C4: the visit of a "p" token flushes the line and then moves cursor_y one
\* VSTEP beyond the position the flush left.
C4_ParagraphGap ==
    [][(TokenEndStep /\ tok.tag = "p") => cursor_y' = FlushCursorY + Px(VSTEP)]_vars

\* ======================================================================
\* C5  No unflushed trailing line
\* ======================================================================
\* Layout construction finishes and Browser.load takes its display list
LoadEndStep == pc = "tokens" /\ pc' = "idle"

\* C5: when Layout construction finishes the line buffer is empty, so
\* the Display List the browser receives holds every word that was placed.
C5_NoTrailingLine ==
    [][LoadEndStep => (line = <<>> /\ display_list' = layout_display_list)]_vars

\* a load whose document placed words has finished
C5_Witness ==
    /\ event = "loaded"
    /\ pc = "idle"
    /\ display_list # <<>>

\* ======================================================================
\* C6  No partial results on failure
\* ======================================================================
\* C6: a load that fails (request, parse or font construction) leaves
\* display_list as it was and issues no redraw; display_list changes only in
\* the one assignment that follows a completed layout pass.
C6_NoPartialResults ==
    [][/\ event' = "failed" =>
            (display_list' = display_list /\ canvas' = canvas /\ redraws' = 0)
       /\ display_list' # display_list =>
            (LoadEndStep /\ display_list' = layout_display_list)]_vars

\* a load has failed while a laid-out document was on display
C6_Witness ==
    /\ event = "failed"
    /\ display_list # <<>>
    /\ canvas # <<>>

\* ======================================================================
\* C7  Baseline alignment
\* ======================================================================
\* entries appended to Layout.display_list by the step
NewEntries == (Len(layout_display_list) + 1)..Len(layout_display_list')

\* C7: the entries emitted by the flush of a line are one per word of
\* the line and all have y + ascent(font) = cursor_y before the flush
\* + 1.25 * the largest ascent of the line's fonts.
C7_BaselineAlignment ==
    [][(pc = "words" /\ pc' # "idle" /\ line # <<>> /\ line' = <<>>) =>
        /\ Len(layout_display_list') = Len(layout_display_list) + Len(line)
        /\ \A i \in NewEntries :
              layout_display_list'[i].y + Px(metrics(layout_display_list'[i].font).ascent)
                 = cursor_y + Mul125(MaxAscent(line))]_vars

\* a line of two words has been flushed
C7_Witness ==
    /\ pc = "tokens"
    /\ Len(layout_display_list) = 2
    /\ layout_display_list[1].y = layout_display_list[2].y
    /\ layout_display_list[1].x < layout_display_list[2].x

\* ======================================================================
\* C8  Monotonic vertical advance
\* ======================================================================
\* C8: within a layout pass cursor_y never decreases and the baseline of
\* a flushed line is never above the baseline of the line flushed before it.
C8_MonotonicAdvance ==
    [][(pc # "idle" /\ pc' # "idle") =>
        (cursor_y' >= cursor_y /\ baseline' >= baseline)]_vars

\* two lines have been flushed in one pass, the second below the first
C8_Witness ==
    /\ pc # "idle"
    /\ Len(layout_display_list) >= 2
    /\ layout_display_list[1].y < layout_display_list[Len(layout_display_list)].y
    /\ baseline > layout_display_list[1].y + Px(metrics(layout_display_list[1].font).ascent)

\* ======================================================================
\* C9  Flush postcondition
\* ======================================================================
\* the step calls Layout.flush: at the end of token, or in word on overflow
FlushCallStep ==
    \/ TokenEndStep
    \/ WordFlushStep /\ cursor_x + PendingWidth > WIDTH - HSTEP

\* C9: after every call of flush the line buffer is empty and cursor_x
\* is HSTEP; a flush of an empty line leaves cursor_y and the Display List
\* as they were.
C9_FlushPostcondition ==
    [][FlushCallStep =>
        /\ line' = <<>>
        /\ cursor_x' = HSTEP
        /\ line = <<>> =>
              (cursor_y' = cursor_y /\ layout_display_list' = layout_display_list)]_vars

\* word has called flush on an empty line: the first word of a token is wider
\* than the viewport
C9_Witness ==
    /\ pc = "place"
    /\ FirstWordOfToken
    /\ line = <<>>
    /\ cursor_x + measure(FONTS[FontKey], Head(words)) > WIDTH - HSTEP

\* ======================================================================
\* C10  Scroll event effect
\* ======================================================================
\* C10: a scroll-down event adds SCROLL_STEP to the scroll offset and
\* redraws once, at the new offset; the Display List, the font cache and the layout state stay
\* as they were and no layout pass is started.
C10_ScrollEffect ==
    [][event' = "scrolled" =>
        /\ scroll' = scroll + SCROLL_STEP
        /\ redraws' = 1
        /\ Len(canvas') = Cardinality(VisibleIdx(display_list, scroll'))
        /\ pc = "idle" /\ pc' = "idle"
        /\ UNCHANGED <<display_list, FONTS, ntok, layoutVars>>]_vars

\* a scroll-down event on a laid-out document that still shows entries
C10_Witness ==
    /\ event = "scrolled"
    /\ scroll >= SCROLL_STEP
    /\ display_list # <<>>
    /\ canvas # <<>>
    /\ FONTS # <<>>

\* ======================================================================
\* C11  Scroll state ownership
\* ======================================================================
\* C11: the scroll offset is always an integer >= 0, and only a
\* scroll-down event changes it: loads, failed loads and the steps of the
\* layout pass leave it as it was.
C11_ScrollOwnership ==
    /\ [](scroll \in Nat)
    /\ [][/\ scroll' # scroll => (pc = "idle" /\ event' = "scrolled")
          /\ event' \in {"loading", "loaded", "failed"} => scroll' = scroll]_vars

\* a load has completed after the document was scrolled, the offset kept
C11_Witness ==
    /\ event = "loaded"
    /\ scroll >= SCROLL_STEP
    /\ display_list # <<>>

\* ======================================================================
\* C12  Font cache memoization
\* ======================================================================
\* C12: an entry of the font cache is never removed or replaced, each
\* step constructs at most one font and only for a key that was missing, the
\* handles of different keys are different, and a get_font call for a key
\* that is present leaves the cache as it was.
C12_FontMemoization ==
    [][/\ \A k \in DOMAIN FONTS : k \in DOMAIN FONTS' /\ FONTS'[k] = FONTS[k]
       /\ Cardinality(DOMAIN FONTS') <= Cardinality(DOMAIN FONTS) + 1
       /\ \A k1, k2 \in DOMAIN FONTS' : FONTS'[k1].id = FONTS'[k2].id => k1 = k2
       /\ WordFlushStep =>
            /\ FontKey \in DOMAIN FONTS'
            /\ FontKey \in DOMAIN FONTS => FONTS' = FONTS]_vars

\* get_font has been called, in a later load, for a key cached by an earlier one
C12_Witness ==
    /\ pc = "place"
    /\ display_list # <<>>
    /\ FontKey \in DOMAIN FONTS

\* ======================================================================
\* C15  Scrolling past the end
\* ======================================================================
\* every entry of the displayed list ends above the viewport
PastEnd(dl, s) ==
    \A i \in 1..Len(dl) : Px(s) > dl[i].y + Px(metrics(dl[i].font).linespace)

\* C15: the scroll offset is never clamped: it is a multiple of
\* SCROLL_STEP and a scroll-down event adds SCROLL_STEP also when the document
\* has been scrolled past; once the offset is beyond y + linespace of every
\* entry nothing is drawn, and that stays so until a load replaces the list.
C15_ScrollPastEnd ==
    /\ [](scroll \in {SCROLL_STEP * k : k \in 0..MaxScrolls})
    /\ [](PastEnd(display_list, scroll) => canvas = <<>>)
    /\ [][/\ (event' = "scrolled" /\ PastEnd(display_list, scroll))
              => scroll' = scroll + SCROLL_STEP
          /\ (PastEnd(display_list, scroll) /\ display_list' = display_list)
              => (PastEnd(display_list', scroll') /\ canvas' = <<>>)]_vars

\* a scroll-down event on a document already scrolled past its last entry
C15_Witness ==
    /\ event = "scrolled"
    /\ display_list # <<>>
    /\ PastEnd(display_list, scroll - SCROLL_STEP)
    /\ canvas = <<>>

\* ======================================================================
\* C17  Right-margin bound
\* ======================================================================
EntryRight(e) == e.x + measure(e.font, e.word)
MarginBound(dl) ==
    \A i \in 1..Len(dl) :
       /\ dl[i].x = HSTEP \/ EntryRight(dl[i]) <= WIDTH - HSTEP
       /\ EntryRight(dl[i]) > WIDTH - HSTEP =>
             \A j \in 1..Len(dl) : dl[j].y = dl[i].y => j = i

\* C17: every entry of a Display List starts at x = HSTEP or ends at or
\* before WIDTH - HSTEP, and an entry that ends beyond WIDTH - HSTEP is the
\* only entry of its line; the words of the line being built obey the same.
C17_RightMargin ==
    /\ MarginBound(display_list)
    /\ MarginBound(layout_display_list)
    /\ \A i \in 1..Len(line) :
          /\ line[i].x = HSTEP \/ EntryRight(line[i]) <= WIDTH - HSTEP
          /\ EntryRight(line[i]) > WIDTH - HSTEP => Len(line) = 1

\* one text leaf of three words is displayed, the second too wide for the
\* viewport: it left the line of the first word, and the third word, which
\* met the cursor beyond the bound, left the line of the second
C17_Witness ==
    /\ event = "loaded"
    /\ Len(doc) = 1
    /\ Len(display_list) = 3
    /\ EntryRight(display_list[1]) <= WIDTH - HSTEP
    /\ EntryRight(display_list[2]) > WIDTH - HSTEP
    /\ display_list[1].y < display_list[2].y
    /\ display_list[2].y < display_list[3].y

\* ======================================================================
\* C18  Token boundaries break lines
\* ======================================================================
\* C18: between tokens, and until the first word of a token is placed,
\* the line buffer is empty and cursor_x is HSTEP; the line being built never
\* holds more words than the current token has placed.
C18_TokenBoundaries ==
    /\ (pc = "tokens" \/ (pc \in {"words", "place"} /\ FirstWordOfToken)) =>
          (line = <<>> /\ cursor_x = HSTEP)
    /\ pc \in {"words", "place"} =>
          Len(line) <= Len(Split(tok.content)) - Len(words)

\* the first word of a later text token is about to be placed at HSTEP although
\* it would have fitted behind the last word of the token before
C18_Witness ==
    /\ pc = "place"
    /\ FirstWordOfToken
    /\ layout_display_list # <<>>
    /\ LET last == layout_display_list[Len(layout_display_list)]
       IN EntryRight(last) + measure(last.font, <<" ">>)
             + measure(FONTS[FontKey], Head(words)) <= WIDTH - HSTEP

\* ======================================================================
\* C19  Lines do not overlap vertically
\* ======================================================================
\* the vertical bands of a list are in order: entries never go up, and an
\* entry below another starts at or below the other's ascent + descent
BandsOrdered(dl) ==
    \A i, j \in 1..Len(dl) :
       i < j =>
          /\ dl[i].y <= dl[j].y
          /\ dl[i].y < dl[j].y =>
                dl[i].y + Px(metrics(dl[i].font).ascent + metrics(dl[i].font).descent)
                   <= dl[j].y

\* C19: the entries of a flushed line have y >= the cursor_y the flush
\* before it left, the cursor_y a flush leaves is >= its baseline + the
\* descent of every font of its line, the entries of a Display List are in
\* the order of their vertical bands, and every entry has y >= VSTEP.
C19_NoVerticalOverlap ==
    /\ [](/\ BandsOrdered(layout_display_list)
          /\ BandsOrdered(display_list)
          /\ \A i \in 1..Len(layout_display_list) :
                layout_display_list[i].y >= Px(VSTEP)
          /\ \A i \in 1..Len(display_list) : display_list[i].y >= Px(VSTEP))
    /\ [][(pc = "words" /\ pc' # "idle" /\ line # <<>> /\ line' = <<>>) =>
            /\ \A i \in NewEntries : layout_display_list'[i].y >= cursor_y
            /\ \A i \in 1..Len(line) :
                  cursor_y' >= baseline' + Px(metrics(line[i].font).descent)]_vars

\* two lines are displayed, the second below the band of the first
C19_Witness ==
    /\ event = "loaded"
    /\ \E i, j \in 1..Len(display_list) :
          display_list[i].y
             + Px(metrics(display_list[i].font).ascent + metrics(display_list[i].font).descent)
             <= display_list[j].y

\* ======================================================================
\* C13  Word completeness and order
\* ======================================================================
\* the whitespace-delimited words of a text, stated by their positions: a
\* word starts at a non-blank that follows a blank or starts the text, and
\* runs up to the last non-blank before the next blank
WordStarts(s) == {i \in 1..Len(s) : s[i] # " " /\ (i = 1 \/ s[i - 1] = " ")}
WordEndFrom(s, i) ==
    CHOOSE j \in i..Len(s) :
       /\ \A k \in i..j : s[k] # " "
       /\ j = Len(s) \/ s[j + 1] = " "
WordsOf(s) ==
    LET st == WordStarts(s)
        nth(k) == CHOOSE i \in st : Cardinality({j \in st : j < i}) = k - 1
    IN [k \in 1..Cardinality(st) |-> SubSeq(s, nth(k), WordEndFrom(s, nth(k)))]

\* the words of the text leaves of a document, in document order
RECURSIVE DocWords(_)
DocWords(d) ==
    IF d = <<>> THEN <<>>
    ELSE (IF Head(d).tag = "text" THEN WordsOf(Head(d).content) ELSE <<>>)
         \o DocWords(Tail(d))

Texts(dl) == [i \in 1..Len(dl) |-> dl[i].word]

\* the tokens of the document the running pass has visited
Visited == IF event = "reloading" THEN SubSeq(doc, 1, ntok - Len(doc)) ELSE doc

\* C13: the texts of the Display List, in order, are exactly the
\* whitespace-delimited words of the text leaves of the document in document
\* order, each emitted whole; during the pass the emitted entries, the line
\* and the words still to place make up the words of the visited tokens.
C13_WordCompleteness ==
    /\ pc \in {"tokens", "words", "place"} =>
          Texts(layout_display_list) \o Texts(line) \o words = DocWords(Visited)
    /\ event = "loaded" => Texts(display_list) = DocWords(doc)

\* a document of a meta element whose content attribute holds words and of
\* a text leaf is displayed: the words shown are those of the text leaf, one
\* of them wider than the viewport and emitted as one entry
C13_Witness ==
    /\ event = "loaded"
    /\ Len(doc) = 2
    /\ doc[1].tag = "meta"
    /\ WordsOf(doc[1].content) # <<>>
    /\ doc[2].tag = "text"
    /\ Len(display_list) = 2
    /\ \E i \in 1..2 : measure(display_list[i].font, display_list[i].word) > WIDTH

\* ======================================================================
\* C14  Determinism
\* ======================================================================
\* C14: a second layout pass over the same document, started with the
\* font cache the first pass left, produces the Display List of the first:
\* the same entries, coordinates, font handles and order.
C14_Determinism ==
    [][(LoadEndStep /\ event = "reloading") =>
          (layout_display_list = display_list /\ display_list' = display_list)]_vars

\* a document with several lines has been laid out twice, the second time
\* with its font already in the cache
C14_Witness ==
    /\ event = "loaded"
    /\ Len(doc) >= 2
    /\ ntok = 2 * Len(doc)
    /\ Len(display_list) >= 3
    /\ FONTS # <<>>

\* ======================================================================
\* C16  Empty document
\* ======================================================================
\* a token that carries no word: an element, or a text leaf of blanks only
NoWords(t) == t.tag # "text" \/ \A i \in 1..Len(t.content) : t.content[i] = " "

\* C16: while the document has shown no token that carries a word, the
\* pass fails nowhere, nothing is emitted or displayed, and cursor_x, cursor_y
\* and the font cache have their initial values.
C16_EmptyDocument ==
    (\A i \in 1..Len(doc) : NoWords(doc[i])) =>
        /\ event # "failed"
        /\ pc # "place"
        /\ words = <<>>
        /\ line = <<>>
        /\ layout_display_list = <<>>
        /\ display_list = <<>>
        /\ canvas = <<>>
        /\ cursor_x = HSTEP
        /\ cursor_y = Px(VSTEP)
        /\ FONTS = <<>>

\* a document of an element and a text leaf of blanks has been laid out
C16_Witness ==
    /\ event = "loaded"
    /\ Len(doc) = 2
    /\ doc[1].tag # "text"
    /\ doc[2].tag = "text"
    /\ doc[2].content # <<>>
    /\ NoWords(doc[2])

====
